---- MODULE Spec2Model ----
(***************************************************************************)
(* Model of the polling scrape engine of the splunkenterprisereceiver:     *)
(* splunkScraper.scrape and its two tasks, scrapeLicenseUsageByIndex (the  *)
(* job path: submit, poll, sleep, timeout, field walk) and                 *)
(* scrapeIndexThroughput (the endpoint path: one request, read, decode,    *)
(* record).  Time is counted in whole seconds.  Floating point values are  *)
(* counted in tenths (15 stands for 1.5).                                  *)
(***************************************************************************)
EXTENDS Integers, Sequences, FiniteSets, TLC

\* ------------------------------------------------------------------ bounds
\* most requests one job task invocation may issue in the model
MaxRequests == 3

\* time.Sleep(2 * time.Second)
SleepInterval == 2

\* request latencies the remote platform may show, in seconds
Latencies == {0, 3}

\* configured MaxSearchWaitTime values, in seconds
MaxSearchWaitTimes == {1, 4}

VARIABLES
    conf,         \* s.conf: the enabled flags and MaxSearchWaitTime
    pc,           \* position of the scrape cycle
    errs,         \* scrapererror.ScrapeErrors of the cycle
    mb,           \* datapoints held by the metrics builder
    sr,           \* searchResponse of the job task
    it,           \* indexThroughput of the endpoint task
    req,          \* the request built last
    res,          \* the response obtained last
    body,         \* bytes returned by io.ReadAll in the endpoint task
    clock,        \* wall clock, seconds since the cycle began
    start,        \* time.Now() taken at the start of the job task
    sleepLeft,    \* seconds left of the poll sleep in progress
    ctxCanceled,  \* the scrape context has been canceled
    result,       \* what scrape returned
    licReqs,      \* history: requests sent by the job task, in order
    licResps,     \* history: status codes received by the job task, in order
    thrReqs,      \* history: number of makeRequest calls of the endpoint task
    open,         \* history: response bodies obtained and not closed, per task
    sleeps,       \* history: completed poll sleeps of the job task
    lastCheck,    \* history: elapsed time at the last timeout check
    sleptCanceled,\* history: seconds slept while the context was canceled
    hist          \* history: tasks called, emits, Ready reached, datapoints recorded

vars == <<conf, pc, errs, mb, sr, it, req, res, body, clock, start, sleepLeft,
          ctxCanceled, result, licReqs, licResps, thrReqs, open, sleeps,
          lastCheck, sleptCanceled, hist>>

\* ------------------------------------------------------------ data values
\* errors.New("Maximum search wait time exceeded for metric")
errMaxSearchWaitTimeExceeded == "Maximum search wait time exceeded for metric"

Field(n, v) == [FieldName |-> n, Value |-> v]

\* field sequences a job result may carry
FieldSeqs ==
    { <<>>,
      <<Field("indexname", "main"), Field("By", "42.0")>>,
      <<Field("By", "abc"), Field("other", "x"), Field("By", "-1.5")>>,
      <<Field("indexname", "main"), Field("By", "7.9"), Field("indexname", "idx2"),
        Field("By", "abc"), Field("By", "42.0")>> }

Entry(kb, st) == [AvgKb |-> kb, Status |-> st]

NoRes == [StatusCode |-> 0, ContentLength |-> 0, body |-> "none", readOk |-> TRUE,
          sid |-> "nil", fields |-> <<>>, entries |-> <<>>]

Response(code, len, b, ok, sid, fields, entries) ==
    [StatusCode |-> code, ContentLength |-> len, body |-> b, readOk |-> ok,
     sid |-> sid, fields |-> fields, entries |-> entries]

\* Responses of the search endpoint.  A 204 carries no body.  A body that is
\* empty has ContentLength 0, or -1 when the length is unknown (chunked).  A
\* 201 answers a submission with the job id and no result yet.
LicResponses ==
    { Response(204, 0, "empty", TRUE, "nil", <<>>, <<>>) }
    \cup { Response(c, 0, "empty", TRUE, "nil", <<>>, <<>>) : c \in {200, 500} }
    \cup { Response(200, -1, "empty", TRUE, "nil", <<>>, <<>>),
           Response(200, 7, "malformed", TRUE, "nil", <<>>, <<>>),
           Response(200, 7, "xml", FALSE, "sid1", <<>>, <<>>),
           Response(500, 7, "xml", TRUE, "nil", <<>>, <<>>),
           Response(201, 7, "xml", TRUE, "sid1", <<>>, <<>>) }
    \cup { Response(200, 7, "xml", TRUE, s, f, <<>>) :
              s \in {"nil", "sid1"}, f \in FieldSeqs }

\* Responses of the introspection endpoint.  "mismatch" is well-formed JSON in
\* which one member has the wrong type: json.Unmarshal decodes the rest and
\* returns an UnmarshalTypeError.
ThrResponses ==
    { Response(200, 0, "empty", TRUE, "nil", <<>>, <<>>),
      Response(200, 7, "malformed", TRUE, "nil", <<>>, <<>>),
      Response(200, 7, "mismatch", TRUE, "nil", <<>>, <<Entry(15, "")>>),
      Response(200, 7, "json", TRUE, "nil", <<>>, <<>>),
      Response(200, 7, "json", TRUE, "nil", <<>>, <<Entry(15, "ok")>>),
      Response(200, 7, "json", TRUE, "nil", <<>>, <<Entry(15, "ok"), Entry(2, "busy")>>),
      Response(200, 7, "json", FALSE, "nil", <<>>, <<Entry(15, "ok")>>) }

Err(task, kind, b) == [task |-> task, kind |-> kind, body |-> b]

\* the history of a cycle that has not begun: tasks called, emits, Ready
\* reached, datapoints recorded per task, job bodies decoded, the fields
\* walked, the response the endpoint task obtained
NoHist == [lic |-> FALSE, thr |-> FALSE, emits |-> 0, ready |-> FALSE,
           licDps |-> 0, thrDps |-> 0, decoded |-> 0, fields |-> <<>>,
           thrRes |-> NoRes]

NoSr == [search |-> "", Jobid |-> "nil", Return |-> 0, Fields |-> <<>>]

TasksErrs(task) == SelectSeq(errs, LAMBDA e : e.task = task)
TasksDps(task) == SelectSeq(mb, LAMBDA d : d.task = task)


\* ------------------------------------------------------- pure operations
\* strconv.ParseFloat(f.Value, 64): the value in tenths, or an error
ParseFloat(v) ==
    CASE v = "42.0" -> [err |-> FALSE, v |-> 420]
      [] v = "-1.5" -> [err |-> FALSE, v |-> -15]
      [] v = "7.9"  -> [err |-> FALSE, v |-> 79]
      [] OTHER      -> [err |-> TRUE, v |-> 0]

\* rounding to the nearest integer instead of truncating
Int64_Mut(v) == IF v >= 0 THEN (v + 5) \div 10 ELSE -((5 - v) \div 10)

\* int64(v): truncation toward zero of a value given in tenths
Int64(v) == IF v >= 0 THEN v \div 10 ELSE -((-v) \div 10)

\* xml.Unmarshal(body, &sr): an empty input is an EOF error, a malformed one a
\* syntax error; a well-formed one sets Jobid from <sid> when present and
\* extends Fields by the result's fields
xmlUnmarshal(r, s) ==
    IF r.body = "xml"
    THEN [err |-> "nil",
          sr |-> [s EXCEPT !.Jobid = IF r.sid # "nil" THEN r.sid ELSE @,
                           !.Fields = @ \o r.fields]]
    ELSE [err |-> "decode", sr |-> s]

\* the length check left out
NoContent_Mut(r) == FALSE

\* res.ContentLength == 0
NoContent(r) == r.ContentLength = 0

\* a response without content resetting the job id
unmarshallSearchReq_Mut(r, s) ==
    LET s1 == [s EXCEPT !.Return = r.StatusCode]
    IN  IF NoContent(r) THEN [err |-> "nil", sr |-> [s1 EXCEPT !.Jobid = "nil"]]
        ELSE IF ~r.readOk THEN [err |-> "read", sr |-> s1]
        ELSE xmlUnmarshal(r, s1)

unmarshallSearchReq(r, s) ==
    LET s1 == [s EXCEPT !.Return = r.StatusCode]
    IN  IF NoContent(r) THEN [err |-> "nil", sr |-> s1]
        ELSE IF ~r.readOk THEN [err |-> "read", sr |-> s1]
        ELSE xmlUnmarshal(r, s1)

\* createRequest(ctx, &sr): a submission of the search while sr holds no job
\* id, a poll of that job once it does
RequestKind(s) == IF s.Jobid = "nil" THEN "submit" ELSE "poll"

\* the job id test left out
IsReady_Mut(s) == s.Return = 200

\* sr.Return == 200 && sr.Jobid != nil
IsReady(s) == s.Return = 200 /\ s.Jobid # "nil"

\* the sleep taken only while polling a known job
AwaitingResult_Mut(s) == s.Return = 204 /\ s.Jobid # "nil"

\* sr.Return == 204
AwaitingResult(s) == s.Return = 204

\* the timeout test left out
WaitExceeded_Never(elapsed) == FALSE

\* the comparison turned around
WaitExceeded_Mut(elapsed) == elapsed < conf.MaxSearchWaitTime

\* time.Since(start) > s.conf.MaxSearchWaitTime
WaitExceeded(elapsed) == elapsed > conf.MaxSearchWaitTime

\* the enabled check left out
LicDisabled_Mut == FALSE

\* !s.conf.MetricsBuilderConfig.Metrics.SplunkLicenseIndexUsage.Enabled
LicDisabled == ~conf.licEnabled

\* !s.conf.MetricsBuilderConfig.Metrics.SplunkIndexerThroughput.Enabled
ThrDisabled == ~conf.thrEnabled

\* scrape emitting right after the job task
AfterLicense_EmitFirst == "emit"

\* scrape returning early unless the job task came out of its loop Ready
AfterLicense_Mut == IF hist.ready THEN "thr_enabled" ELSE "emit"

\* the statement scrape runs after scrapeLicenseUsageByIndex has returned
AfterLicense == "thr_enabled"

\* a field walk that stops at the first conversion error
RECURSIVE WalkFields_Mut(_, _)
WalkFields_Mut(fs, indexName) ==
    IF fs = <<>> THEN [errs |-> <<>>, dps |-> <<>>]
    ELSE LET f == Head(fs)
         IN  IF f.FieldName = "indexname"
             THEN WalkFields_Mut(Tail(fs), f.Value)
             ELSE IF f.FieldName = "By"
             THEN LET p == ParseFloat(f.Value)
                  IN  IF p.err
                      THEN [errs |-> <<Err("lic", "convert", "none")>>, dps |-> <<>>]
                      ELSE [WalkFields_Mut(Tail(fs), indexName) EXCEPT !.dps =
                              <<[task |-> "lic", value |-> Int64(p.v), dim |-> indexName]>> \o @]
             ELSE WalkFields_Mut(Tail(fs), indexName)

\* the field walk of scrapeLicenseUsageByIndex: the errors added and the
\* datapoints recorded, given the fields not yet walked and the index name
RECURSIVE WalkFields(_, _)
WalkFields(fs, indexName) ==
    IF fs = <<>> THEN [errs |-> <<>>, dps |-> <<>>]
    ELSE LET f == Head(fs)
         IN  IF f.FieldName = "indexname"
             THEN WalkFields(Tail(fs), f.Value)
             ELSE IF f.FieldName = "By"
             THEN LET p == ParseFloat(f.Value)
                      rest == WalkFields(Tail(fs), indexName)
                  IN  IF p.err
                      THEN [rest EXCEPT !.errs = <<Err("lic", "convert", "none")>> \o @]
                      ELSE [rest EXCEPT !.dps =
                              <<[task |-> "lic", value |-> Int64(p.v), dim |-> indexName]>> \o @]
             ELSE WalkFields(Tail(fs), indexName)

\* errs.Combine(): nil when nothing was added
Combine(e) == IF Len(e) = 0 THEN "nil" ELSE "scrape errors"

\* ------------------------------------------------------------------- Init
Init ==
    /\ conf \in [licEnabled : BOOLEAN, thrEnabled : BOOLEAN,
                 MaxSearchWaitTime : MaxSearchWaitTimes]
    /\ pc = "idle"
    /\ errs = <<>>
    /\ mb = <<>>
    /\ sr = NoSr
    /\ it = <<>>
    /\ req = "nil"
    /\ res = NoRes
    /\ body = [kind |-> "none", entries |-> <<>>]
    /\ clock = 0
    /\ start = 0
    /\ sleepLeft = 0
    /\ ctxCanceled = FALSE
    /\ result = [snapshot |-> <<>>, err |-> "nil"]
    /\ licReqs = <<>>
    /\ licResps = <<>>
    /\ thrReqs = 0
    /\ open = [lic |-> 0, thr |-> 0]
    /\ sleeps = 0
    /\ lastCheck = 0
    /\ sleptCanceled = 0
    /\ hist = NoHist

\* ------------------------------------------------------------ scrape, begin
\* scrape is called with a fresh context: errs := &ScrapeErrors{}, and the
\* job task is called first
scrape ==
    /\ pc \in {"idle", "done"}
    /\ pc' = "lic_enabled"
    /\ errs' = <<>>
    /\ clock' = 0
    /\ ctxCanceled' = FALSE
    /\ result' = [snapshot |-> <<>>, err |-> "nil"]
    /\ licReqs' = <<>>
    /\ licResps' = <<>>
    /\ thrReqs' = 0
    /\ open' = [lic |-> 0, thr |-> 0]
    /\ sleeps' = 0
    /\ lastCheck' = 0
    /\ sleptCanceled' = 0
    /\ hist' = NoHist
    /\ UNCHANGED <<conf, mb, sr, it, req, res, body, start, sleepLeft>>

\* the scrape context is canceled while the cycle runs
cancel ==
    /\ pc \notin {"idle", "done"}
    /\ ~ctxCanceled
    /\ ctxCanceled' = TRUE
    /\ UNCHANGED <<conf, pc, errs, mb, sr, it, req, res, body, clock, start,
                   sleepLeft, result, licReqs, licResps, thrReqs, open, sleeps,
                   lastCheck, sleptCanceled, hist>>

\* ------------------------------------------- scrapeLicenseUsageByIndex
\* no return: control falls through to the timeout test of the loop
licReturn_Mut ==
    /\ pc' = "lic_timeout"
    /\ UNCHANGED <<sr, req, res, start, sleepLeft>>

\* a return of the job task: its locals go out of scope
licReturn ==
    /\ pc' = AfterLicense
    /\ sr' = NoSr
    /\ req' = "nil"
    /\ res' = NoRes
    /\ start' = 0
    /\ sleepLeft' = 0

\* the enabled check, sr := searchResponse{search: ...}, start := time.Now()
licEnabled ==
    /\ pc = "lic_enabled"
    /\ hist' = [hist EXCEPT !.lic = TRUE]
    /\ IF LicDisabled
       THEN licReturn
       ELSE /\ pc' = "lic_create"
            /\ sr' = [NoSr EXCEPT !.search = "SplunkLicenseIndexUsageSearch"]
            /\ start' = clock
            /\ UNCHANGED <<req, res, sleepLeft>>
    /\ UNCHANGED <<conf, errs, mb, it, body, clock, ctxCanceled, result, licReqs,
                   licResps, thrReqs, open, sleeps, lastCheck, sleptCanceled>>

\* req, err = s.splunkClient.createRequest(ctx, &sr): a submission while no
\* job id is known, a poll of the job afterwards
licCreateRequest ==
    /\ pc = "lic_create"
    /\ \E fails \in BOOLEAN :
         IF fails
         THEN /\ errs' = Append(errs, Err("lic", "create", "none"))
              /\ licReturn
         ELSE /\ req' = RequestKind(sr)
              /\ pc' = "lic_make"
              /\ UNCHANGED <<errs, sr, res, start, sleepLeft>>
    /\ UNCHANGED <<conf, mb, it, body, clock, ctxCanceled, result, licReqs,
                   licResps, thrReqs, open, sleeps, lastCheck, sleptCanceled,
                   hist>>

\* res, err = s.splunkClient.makeRequest(req): a request under a canceled
\* context fails at once; otherwise it takes some time and fails or answers
licMakeRequest ==
    /\ pc = "lic_make"
    /\ Len(licReqs) < MaxRequests
    /\ licReqs' = Append(licReqs, req)
    /\ IF ctxCanceled
       THEN /\ errs' = Append(errs, Err("lic", "canceled", "none"))
            /\ licReturn
            /\ UNCHANGED <<clock, licResps, open>>
       ELSE \E d \in Latencies :
              /\ clock' = clock + d
              /\ \/ /\ errs' = Append(errs, Err("lic", "transport", "none"))
                    /\ licReturn
                    /\ UNCHANGED <<licResps, open>>
                 \/ \E r \in LicResponses :
                      /\ res' = r
                      /\ licResps' = Append(licResps, r.StatusCode)
                      /\ open' = [open EXCEPT !.lic = @ + 1]
                      /\ pc' = "lic_unmarshall"
                      /\ UNCHANGED <<errs, sr, req, start, sleepLeft>>
    /\ UNCHANGED <<conf, mb, it, body, ctxCanceled, result, thrReqs, sleeps,
                   lastCheck, sleptCanceled, hist>>

\* err = unmarshallSearchReq(res, &sr); on an error the task returns, and
\* only otherwise res.Body.Close() runs
licUnmarshall ==
    /\ pc = "lic_unmarshall"
    /\ LET u == unmarshallSearchReq(res, sr)
       IN  IF u.err # "nil"
           THEN /\ errs' = Append(errs, Err("lic", u.err, res.body))
                /\ licReturn
                /\ UNCHANGED open
           ELSE /\ sr' = u.sr
                /\ open' = [open EXCEPT !.lic = @ - 1]
                /\ pc' = "lic_ready"
                /\ UNCHANGED <<errs, req, res, start, sleepLeft>>
    /\ hist' = IF res.body = "xml" /\ res.readOk
               THEN [hist EXCEPT !.decoded = @ + 1] ELSE hist
    /\ UNCHANGED <<conf, mb, it, body, clock, ctxCanceled, result, licReqs,
                   licResps, thrReqs, sleeps, lastCheck, sleptCanceled>>

\* if sr.Return == 200 && sr.Jobid != nil { break }; if sr.Return == 204 the
\* sleep begins
licCheckReady ==
    /\ pc = "lic_ready"
    /\ IF IsReady(sr)
       THEN /\ pc' = "lic_record"
            /\ hist' = [hist EXCEPT !.ready = TRUE]
            /\ UNCHANGED sleepLeft
       ELSE IF AwaitingResult(sr)
       THEN /\ pc' = "lic_sleep"
            /\ sleepLeft' = SleepInterval
            /\ UNCHANGED hist
       ELSE /\ pc' = "lic_timeout"
            /\ UNCHANGED <<sleepLeft, hist>>
    /\ UNCHANGED <<conf, errs, mb, sr, it, req, res, body, clock, start,
                   ctxCanceled, result, licReqs, licResps, thrReqs, open, sleeps,
                   lastCheck, sleptCanceled>>

\* time.Sleep(2 * time.Second), one second at a time; the sleep does not
\* look at the context
licSleep ==
    /\ pc = "lic_sleep"
    /\ clock' = clock + 1
    /\ sleepLeft' = sleepLeft - 1
    /\ sleptCanceled' = IF ctxCanceled THEN sleptCanceled + 1 ELSE sleptCanceled
    /\ IF sleepLeft = 1
       THEN pc' = "lic_timeout" /\ sleeps' = sleeps + 1
       ELSE UNCHANGED <<pc, sleeps>>
    /\ UNCHANGED <<conf, errs, mb, sr, it, req, res, body, start, ctxCanceled,
                   result, licReqs, licResps, thrReqs, open, lastCheck, hist>>

\* if time.Since(start) > s.conf.MaxSearchWaitTime { errs.Add(...); return }
licCheckTimeout ==
    /\ pc = "lic_timeout"
    /\ lastCheck' = clock - start
    /\ IF WaitExceeded(clock - start)
       THEN /\ errs' = Append(errs, Err("lic", errMaxSearchWaitTimeExceeded, "none"))
            /\ licReturn
       ELSE /\ pc' = "lic_create"
            /\ UNCHANGED <<errs, sr, req, res, start, sleepLeft>>
    /\ UNCHANGED <<conf, mb, it, body, clock, ctxCanceled, result, licReqs,
                   licResps, thrReqs, open, sleeps, sleptCanceled, hist>>

\* the field walk after the loop, then the return
licRecord ==
    /\ pc = "lic_record"
    /\ LET w == WalkFields(sr.Fields, "")
       IN  /\ errs' = errs \o w.errs
           /\ mb' = mb \o w.dps
           /\ hist' = [hist EXCEPT !.licDps = @ + Len(w.dps), !.fields = sr.Fields]
    /\ licReturn
    /\ UNCHANGED <<conf, it, body, clock, ctxCanceled, result, licReqs,
                   licResps, thrReqs, open, sleeps, lastCheck, sleptCanceled>>

scrapeLicenseUsageByIndex ==
    \/ licEnabled
    \/ licCreateRequest
    \/ licMakeRequest
    \/ licUnmarshall
    \/ licCheckReady
    \/ licSleep
    \/ licCheckTimeout
    \/ licRecord


\* ---------------------------------------------------- scrapeIndexThroughput
\* json.Unmarshal(body, &it): an empty or malformed input is a syntax error
\* and leaves it untouched; a type mismatch decodes what it can and returns
\* an error; a well-formed input sets the entries
jsonUnmarshal(b) ==
    CASE b.kind = "json"     -> [err |-> FALSE, entries |-> b.entries]
      [] b.kind = "mismatch" -> [err |-> TRUE, entries |-> b.entries]
      [] OTHER               -> [err |-> TRUE, entries |-> <<>>]

\* the value recorded without the scaling
ThroughputPoint_Mut(e) == [task |-> "thr", value |-> e.AvgKb, dim |-> e.Status]

\* s.mb.RecordSplunkIndexerThroughputDataPoint(now, 1000*AvgKb, Status)
ThroughputPoint(e) == [task |-> "thr", value |-> 1000 * e.AvgKb, dim |-> e.Status]

RECURSIVE ThroughputPoints(_)
ThroughputPoints(es) ==
    IF es = <<>> THEN <<>>
    ELSE <<ThroughputPoint(Head(es))>> \o ThroughputPoints(Tail(es))

\* a return of the endpoint task: its locals go out of scope
thrReturn ==
    /\ pc' = "emit"
    /\ it' = <<>>
    /\ req' = "nil"
    /\ res' = NoRes
    /\ body' = [kind |-> "none", entries |-> <<>>]

thrEnabled ==
    /\ pc = "thr_enabled"
    /\ hist' = [hist EXCEPT !.thr = TRUE]
    /\ IF ThrDisabled
       THEN thrReturn
       ELSE pc' = "thr_create" /\ UNCHANGED <<it, req, res, body>>
    /\ UNCHANGED <<conf, errs, mb, sr, clock, start, sleepLeft, ctxCanceled,
                   result, licReqs, licResps, thrReqs, open, sleeps, lastCheck,
                   sleptCanceled>>

\* req, err := s.splunkClient.createAPIRequest(ctx, ept); an error is added
\* and the task goes on with a nil request
thrCreateAPIRequest ==
    /\ pc = "thr_create"
    /\ \E fails \in BOOLEAN :
         IF fails
         THEN /\ errs' = Append(errs, Err("thr", "create", "none"))
              /\ req' = "nil"
              /\ pc' = "thr_make"
              /\ UNCHANGED <<it, res, body>>
         ELSE /\ req' = "api"
              /\ pc' = "thr_make"
              /\ UNCHANGED <<errs, it, res, body>>
    /\ UNCHANGED <<conf, mb, sr, clock, start, sleepLeft, ctxCanceled, result,
                   licReqs, licResps, thrReqs, open, sleeps, lastCheck,
                   sleptCanceled, hist>>

\* res, err := s.splunkClient.makeRequest(req); defer res.Body.Close().  A nil
\* request and a request under a canceled context fail
thrMakeRequest ==
    /\ pc = "thr_make"
    /\ thrReqs' = thrReqs + 1
    /\ IF req = "nil" \/ ctxCanceled
       THEN /\ errs' = Append(errs, Err("thr", IF req = "nil" THEN "transport"
                                                ELSE "canceled", "none"))
            /\ thrReturn
            /\ UNCHANGED <<clock, open>>
       ELSE \E d \in Latencies :
              /\ clock' = clock + d
              /\ \/ /\ errs' = Append(errs, Err("thr", "transport", "none"))
                    /\ thrReturn
                    /\ UNCHANGED open
                 \/ \E r \in ThrResponses :
                      /\ res' = r
                      /\ open' = [open EXCEPT !.thr = @ + 1]
                      /\ pc' = "thr_read"
                      /\ UNCHANGED <<errs, it, req, body>>
    /\ hist' = [hist EXCEPT !.thrRes = res']
    /\ UNCHANGED <<conf, mb, sr, start, sleepLeft, ctxCanceled, result, licReqs,
                   licResps, sleeps, lastCheck, sleptCanceled>>

\* body, err := io.ReadAll(res.Body): on an error the bytes read so far are
\* returned (nothing, a truncated body, or all of it) and the task goes on
thrReadAll ==
    /\ pc = "thr_read"
    /\ IF res.readOk
       THEN /\ body' = [kind |-> res.body, entries |-> res.entries]
            /\ pc' = "thr_unmarshal"
            /\ UNCHANGED <<errs, open, it, req, res>>
       ELSE /\ errs' = Append(errs, Err("thr", "read", res.body))
            /\ \E b \in { [kind |-> "empty", entries |-> <<>>],
                          [kind |-> "malformed", entries |-> <<>>],
                          [kind |-> res.body, entries |-> res.entries] } :
                 /\ body' = b
                 /\ pc' = "thr_unmarshal"
                 /\ UNCHANGED <<open, it, req, res>>
    /\ UNCHANGED <<conf, mb, sr, clock, start, sleepLeft, ctxCanceled, result,
                   licReqs, licResps, thrReqs, sleeps, lastCheck, sleptCanceled,
                   hist>>

\* err = json.Unmarshal(body, &it): an error is added and the task goes on
thrUnmarshal ==
    /\ pc = "thr_unmarshal"
    /\ LET u == jsonUnmarshal(body)
       IN  IF u.err
           THEN /\ errs' = Append(errs, Err("thr", "decode", res.body))
                /\ it' = u.entries
                /\ pc' = "thr_record"
                /\ UNCHANGED <<open, req, res, body>>
           ELSE /\ it' = u.entries
                /\ pc' = "thr_record"
                /\ UNCHANGED <<errs, open, req, res, body>>
    /\ UNCHANGED <<conf, mb, sr, clock, start, sleepLeft, ctxCanceled, result,
                   licReqs, licResps, thrReqs, sleeps, lastCheck, sleptCanceled,
                   hist>>

\* for _, entry := range it.Entries { Record... }, then the deferred
\* res.Body.Close() and the return
thrRecord ==
    /\ pc = "thr_record"
    /\ mb' = mb \o ThroughputPoints(it)
    /\ hist' = [hist EXCEPT !.thrDps = @ + Len(it)]
    /\ open' = [open EXCEPT !.thr = @ - 1]
    /\ thrReturn
    /\ UNCHANGED <<conf, errs, sr, clock, start, sleepLeft, ctxCanceled, result,
                   licReqs, licResps, thrReqs, sleeps, lastCheck, sleptCanceled>>

scrapeIndexThroughput ==
    \/ thrEnabled
    \/ thrCreateAPIRequest
    \/ thrMakeRequest
    \/ thrReadAll
    \/ thrUnmarshal
    \/ thrRecord

\* ------------------------------------------------------------ scrape, end
\* return s.mb.Emit(), errs.Combine(): Emit hands out the datapoints and
\* resets the builder
scrapeReturn ==
    /\ pc = "emit"
    /\ result' = [snapshot |-> mb, err |-> Combine(errs)]
    /\ mb' = <<>>
    /\ hist' = [hist EXCEPT !.emits = @ + 1]
    /\ pc' = "done"
    /\ UNCHANGED <<conf, errs, sr, it, req, res, body, clock, start, sleepLeft,
                   ctxCanceled, licReqs, licResps, thrReqs, open, sleeps,
                   lastCheck, sleptCanceled>>

Next ==
    \/ scrape
    \/ cancel
    \/ scrapeLicenseUsageByIndex
    \/ scrapeIndexThroughput
    \/ scrapeReturn

Spec == Init /\ [][Next]_vars

\* makeRequest while the wall clock advances: an answer takes time, unless
\* it is a 204, after which the sleep takes time
licMakeRequestLive ==
    /\ licMakeRequest
    /\ pc' = "lic_unmarshall" => (clock' > clock \/ res'.StatusCode = 204)

scrapeLicenseUsageByIndexLive ==
    \/ licEnabled
    \/ licCreateRequest
    \/ licMakeRequestLive
    \/ licUnmarshall
    \/ licCheckReady
    \/ licSleep
    \/ licCheckTimeout
    \/ licRecord

LiveNext ==
    \/ scrape
    \/ cancel
    \/ scrapeLicenseUsageByIndexLive
    \/ scrapeIndexThroughput
    \/ scrapeReturn

\* the job task, once called, keeps running: it is sequential code on the
\* caller's goroutine
LiveSpec == Init /\ [][LiveNext]_vars /\ WF_vars(scrapeLicenseUsageByIndexLive)

TypeOK ==
    /\ pc \in {"idle", "lic_enabled", "lic_create", "lic_make", "lic_unmarshall",
               "lic_ready", "lic_sleep", "lic_timeout", "lic_record",
               "thr_enabled", "thr_create", "thr_make", "thr_read",
               "thr_unmarshal", "thr_record", "emit", "done"}
    /\ open.lic \in 0..MaxRequests /\ open.thr \in 0..1
    /\ Len(licReqs) <= MaxRequests
    /\ sleepLeft \in 0..SleepInterval


\* ----------------------------------------------------------------- claims
LicPcs == {"lic_enabled", "lic_create", "lic_make", "lic_unmarshall",
           "lic_ready", "lic_sleep", "lic_timeout", "lic_record"}
ThrPcs == {"thr_enabled", "thr_create", "thr_make", "thr_read",
           "thr_unmarshal", "thr_record"}

\* the job task of this cycle has been called and has returned
LicEnded == hist.lic /\ pc \notin LicPcs
\* the endpoint task of this cycle has been called and has returned
ThrEnded == hist.thr /\ pc \notin ThrPcs

HasErr(task, kind) == \E i \in 1..Len(errs) : errs[i].task = task /\ errs[i].kind = kind

\* C1: a task whose enabled flag is false issues no request and adds no
\* error in the cycle, and never gets past its enabled check, whatever the
\* other task does.
C1_DisabledTaskDoesNothing ==
    /\ ~conf.licEnabled =>
          /\ Len(licReqs) = 0
          /\ TasksErrs("lic") = <<>>
          /\ pc \notin (LicPcs \ {"lic_enabled"})
    /\ ~conf.thrEnabled =>
          /\ thrReqs = 0
          /\ TasksErrs("thr") = <<>>
          /\ pc \notin (ThrPcs \ {"thr_enabled"})

\* a cycle has ended in which the job task was disabled and skipped while the
\* endpoint task sent its request and added an error
C1_Witness ==
    /\ pc = "done" /\ ~conf.licEnabled /\ conf.thrEnabled
    /\ hist.lic /\ thrReqs = 1 /\ TasksErrs("thr") # <<>>

\* C2: whatever the job task's outcome, scrape calls the endpoint task after
\* it, and returns the datapoints recorded by both tasks with a combined
\* error that is nil exactly when no task added an error.
C2_FailureDoesNotAbortCycle ==
    /\ pc \in {"emit", "done"} => hist.lic /\ hist.thr
    /\ pc = "done" =>
          /\ (result.err = "nil") <=> (Len(errs) = 0)
          /\ Len(SelectSeq(result.snapshot, LAMBDA d : d.task = "lic")) = hist.licDps
          /\ Len(SelectSeq(result.snapshot, LAMBDA d : d.task = "thr")) = hist.thrDps

\* the job task failed on a malformed body, and the cycle still returned the
\* endpoint task's datapoints with a non-nil combined error
C2_Witness ==
    /\ pc = "done" /\ HasErr("lic", "decode") /\ TasksErrs("thr") = <<>>
    /\ hist.thrDps = 2 /\ Len(result.snapshot) = 2 /\ result.err # "nil"

\* C3: every response body a task obtained has been closed when the task
\* ends, on every exit path of both paths.
C3_BodiesReleased ==
    /\ LicEnded => open.lic = 0
    /\ ThrEnded => open.thr = 0

\* C4: no decode error is added for a response whose body is empty, in
\* either path.
C4_EmptyBodyIsNoDecodeError ==
    \A i \in 1..Len(errs) : errs[i].kind = "decode" => errs[i].body # "empty"

\* the job task has received N times 204 and then a 200 whose body decoded
\* and carried the job id
N204 == Len(licResps) - 1
C5_Case ==
    /\ pc \in {"lic_ready", "lic_record"}
    /\ Len(licResps) >= 1
    /\ licResps[Len(licResps)] = 200
    /\ \A i \in 1..N204 : licResps[i] = 204
    /\ sr.Jobid # "nil"

\* C5 as stated: after N times 204 and then a valid 200 the task is at the
\* parse step with no error, after exactly N sleeps, with an elapsed time of
\* at least N x 2s that does not exceed the maximum search wait.
C5_Original ==
    C5_Case =>
        /\ sr.Return = 200
        /\ TasksErrs("lic") = <<>>
        /\ sleeps = N204
        /\ clock - start >= N204 * SleepInterval
        /\ clock - start <= conf.MaxSearchWaitTime

\* C5 amended: after N times 204 and then a valid 200 the task is at the
\* parse step with no error, after exactly N sleeps, with an elapsed time of
\* at least N x 2s; what the maximum search wait bounds is the elapsed time
\* at the last timeout check, not the elapsed time at success.
C5_SuccessAfterN204 ==
    C5_Case =>
        /\ sr.Return = 200
        /\ TasksErrs("lic") = <<>>
        /\ sleeps = N204
        /\ clock - start >= N204 * SleepInterval
        /\ lastCheck <= conf.MaxSearchWaitTime
        /\ N204 >= 1 => lastCheck >= N204 * SleepInterval

\* success after two 204s: two sleeps, four seconds, at the field walk
C5_Witness ==
    /\ C5_Case /\ pc = "lic_record" /\ N204 = 2 /\ sleeps = 2
    /\ lastCheck = 4 /\ clock - start > conf.MaxSearchWaitTime

\* C6: a job task that got a 204 to every request and was not stopped by a
\* transport failure ends with exactly one error, the timeout error, and
\* with no datapoint.
C6_Case ==
    /\ LicEnded
    /\ Len(licResps) >= 1
    /\ Len(licResps) = Len(licReqs)
    /\ \A i \in 1..Len(licResps) : licResps[i] = 204
    /\ ~HasErr("lic", "create")

C6_TimeoutOnly ==
    C6_Case =>
        /\ TasksErrs("lic") = <<Err("lic", errMaxSearchWaitTimeExceeded, "none")>>
        /\ hist.licDps = 0
        /\ ~hist.ready

\* two 204s under a maximum wait of 4s, each within the wait; the third 204
\* ends in the timeout
C6_Witness ==
    /\ C6_Case /\ Len(licResps) = 3 /\ sleeps = 3
    /\ HasErr("lic", errMaxSearchWaitTimeExceeded)

\* C7 as stated: the job task never reaches the field walk once the elapsed
\* time exceeds the maximum search wait.
C7_Original ==
    pc = "lic_record" => clock - start <= conf.MaxSearchWaitTime

\* C7 amended: the timeout is evaluated only after a response that is not
\* Ready.  When the elapsed time found there exceeds the maximum search wait
\* the task adds the timeout error and ends without datapoints; the next
\* request is built and sent only while it does not; the field walk is
\* reached only if every check made before found the wait not exceeded.
C7_TimeoutAtCheck ==
    /\ pc \in {"lic_create", "lic_make"} => clock - start <= conf.MaxSearchWaitTime
    /\ pc \in {"lic_create", "lic_make", "lic_unmarshall", "lic_ready",
               "lic_sleep", "lic_record"} => lastCheck <= conf.MaxSearchWaitTime
    /\ HasErr("lic", errMaxSearchWaitTimeExceeded) =>
          /\ lastCheck > conf.MaxSearchWaitTime
          /\ hist.licDps = 0
          /\ ~hist.ready
    /\ LicEnded /\ lastCheck > conf.MaxSearchWaitTime =>
          HasErr("lic", errMaxSearchWaitTimeExceeded)

\* a task that timed out at a check after a response that was not a 204
C7_Witness ==
    /\ LicEnded /\ HasErr("lic", errMaxSearchWaitTimeExceeded)
    /\ licResps[Len(licResps)] = 500 /\ lastCheck > conf.MaxSearchWaitTime

\* C8: once the context is canceled the job task does not go on sleeping:
\* no second of the poll sleep passes under a canceled context.
C8_CancelInterruptsSleep ==
    sleptCanceled = 0

\* C9: a task that added a decode error for a non-empty body has recorded
\* no datapoint, in both paths.
C9_MalformedBodyNoDatapoints ==
    /\ (\E i \in 1..Len(errs) : /\ errs[i].task = "lic" /\ errs[i].kind = "decode"
                                /\ errs[i].body # "empty") => hist.licDps = 0
    /\ (\E i \in 1..Len(errs) : /\ errs[i].task = "thr" /\ errs[i].kind = "decode"
                                /\ errs[i].body # "empty") => hist.thrDps = 0

\* C10: the endpoint task sends at most one request, none after a failed
\* request construction, and adds at most one error; after an error it
\* records no datapoint.
C10_SingleShot ==
    /\ thrReqs <= 1
    /\ HasErr("thr", "create") => thrReqs = 0
    /\ Len(TasksErrs("thr")) <= 1
    /\ TasksErrs("thr") # <<>> => hist.thrDps = 0


\* C11: while the wall clock advances, every invocation of the job task
\* returns, Ready or with an error, whatever the responses are; it never
\* sleeps more often than the maximum search wait allows, and it never
\* has to send more than MaxRequests requests.
C11_JobTaskTerminates ==
    /\ [](pc = "lic_make" => Len(licReqs) < MaxRequests)
    /\ [](sleeps * SleepInterval <= conf.MaxSearchWaitTime + SleepInterval)
    /\ [](LicEnded /\ conf.licEnabled => hist.ready \/ TasksErrs("lic") # <<>>)
    /\ (pc \in LicPcs) ~> LicEnded

\* a platform that answered 204 every time: the task timed out after three
\* sleeps, six seconds after its start
C11_Witness ==
    /\ LicEnded /\ licResps = <<204, 204, 204>> /\ clock = 3 * SleepInterval
    /\ TasksErrs("lic") = <<Err("lic", errMaxSearchWaitTimeExceeded, "none")>>


\* C12: Emit is called once per cycle, when both tasks have been called and
\* have returned; from then on the cycle is over, so no task records a
\* datapoint or adds an error after it, and the builder holds nothing.
C12_EmitOnceAfterAllTasks ==
    /\ hist.emits <= 1
    /\ (hist.emits = 1) <=> (pc = "done")
    /\ hist.emits = 1 =>
          /\ hist.lic /\ hist.thr
          /\ mb = <<>>
          /\ Len(result.snapshot) = hist.licDps + hist.thrDps
    /\ hist.emits = 0 => result = [snapshot |-> <<>>, err |-> "nil"]

\* a cycle that ended with datapoints of both tasks in the one snapshot
C12_Witness ==
    /\ pc = "done" /\ hist.emits = 1 /\ hist.licDps > 0 /\ hist.thrDps > 0
    /\ Len(result.snapshot) = hist.licDps + hist.thrDps


\* the strings that are numbers, and the integer part of each
NumericValues == {"42.0", "-1.5", "7.9"}
IntegerPart(v) == CASE v = "42.0" -> 42 [] v = "-1.5" -> -1 [] v = "7.9" -> 7

\* positions of the "By" fields of fs that convert, and that do not
GoodBy(fs) == {i \in 1..Len(fs) : fs[i].FieldName = "By" /\ fs[i].Value \in NumericValues}
BadBy(fs) == {i \in 1..Len(fs) : fs[i].FieldName = "By" /\ fs[i].Value \notin NumericValues}

\* the value of the last "indexname" field before position i, "" if none
IndexBefore(fs, i) ==
    LET P == {j \in 1..(i - 1) : fs[j].FieldName = "indexname"}
    IN  IF P = {} THEN ""
        ELSE fs[CHOOSE j \in P : \A k \in P : k <= j].Value

\* the datapoints a result with fields fs is to give, in order
ExpectedPoints(fs) ==
    LET pos == SelectSeq([i \in 1..Len(fs) |-> i], LAMBDA i : i \in GoodBy(fs))
    IN  [k \in 1..Len(pos) |->
            [task |-> "lic", value |-> IntegerPart(fs[pos[k]].Value),
             dim |-> IndexBefore(fs, pos[k])]]

\* the datapoints of a task recorded in this cycle, emitted or not
PointsOf(task) ==
    SelectSeq(IF pc = "done" THEN result.snapshot ELSE mb, LAMBDA d : d.task = task)

ConvertErrs == SelectSeq(errs, LAMBDA e : e.task = "lic" /\ e.kind = "convert")

\* C13: after the walk of a Ready result there is one conversion error for
\* each "By" field that does not convert and one datapoint for each that
\* does, those after a failing field included.
C13_ConversionErrorContinues ==
    LicEnded /\ hist.ready =>
        /\ Len(ConvertErrs) = Cardinality(BadBy(hist.fields))
        /\ hist.licDps = Cardinality(GoodBy(hist.fields))
        /\ Len(PointsOf("lic")) = hist.licDps

\* a result whose fourth field fails to convert and whose fifth converts
C13_Witness ==
    /\ LicEnded /\ hist.ready /\ Len(hist.fields) = 5
    /\ BadBy(hist.fields) = {4} /\ GoodBy(hist.fields) = {2, 5}
    /\ Len(ConvertErrs) = 1 /\ hist.licDps = 2

\* C14: the datapoints of a Ready result are, in order, one for each "By"
\* field that converts, with the integer part of its number as value and the
\* last "indexname" value before it (or "") as dimension; no other field
\* records anything or adds an error.
C14_FieldWalk ==
    LicEnded /\ hist.ready =>
        /\ PointsOf("lic") = ExpectedPoints(hist.fields)
        /\ \A i \in 1..Len(errs) : errs[i].task = "lic" => errs[i].kind = "convert"
        /\ Len(ConvertErrs) <= Cardinality({i \in 1..Len(hist.fields) :
                                              hist.fields[i].FieldName = "By"})

\* 204, then 200 with fields [indexname=main, By=42.0]: one datapoint
\* (main, 42) and a nil combined error
C14_Witness ==
    /\ pc = "done" /\ hist.ready /\ licResps = <<201, 204, 200>>
    /\ hist.fields = <<Field("indexname", "main"), Field("By", "42.0")>>
    /\ PointsOf("lic") = <<[task |-> "lic", value |-> 42, dim |-> "main"]>>
    /\ result.err = "nil"


\* the endpoint task has returned after a response whose body was read and
\* decoded without error
C15_Case ==
    /\ ThrEnded /\ thrReqs = 1
    /\ hist.thrRes.body = "json" /\ hist.thrRes.readOk

\* C15: after a decoded response the endpoint task has recorded one
\* datapoint per entry, in order, with 1000 x avg_kb as value and the status
\* as dimension, and has added no error.
C15_EntriesOneToOne ==
    C15_Case =>
        /\ Len(PointsOf("thr")) = Len(hist.thrRes.entries)
        /\ \A i \in 1..Len(hist.thrRes.entries) :
              /\ PointsOf("thr")[i].value = 1000 * hist.thrRes.entries[i].AvgKb
              /\ PointsOf("thr")[i].dim = hist.thrRes.entries[i].Status
        /\ hist.thrDps = Len(hist.thrRes.entries)
        /\ TasksErrs("thr") = <<>>

\* avg_kb 1.5 with status ok gave the value 1500.0 with dimension ok
C15_Witness ==
    /\ C15_Case /\ pc = "emit"
    /\ hist.thrRes.entries = <<Entry(15, "ok")>>
    /\ PointsOf("thr") = <<[task |-> "thr", value |-> 15000, dim |-> "ok"]>>


\* C16 as stated: within one invocation only the first request is a
\* submission; every later one is a poll.
C16_Original ==
    \A i \in 2..Len(licReqs) : licReqs[i] = "poll"

\* C16 amended: the first request is a submission; a request is a poll
\* exactly when a job id has been decoded from an earlier response, and the
\* job id is never unset, so every request after a poll is a poll.  Until a
\* response carries the job id (after a 204 or another response without
\* content) each further request is a submission again.
C16_SubmitThenPoll ==
    /\ Len(licReqs) >= 1 => licReqs[1] = "submit"
    /\ \A i, j \in 1..Len(licReqs) : i < j /\ licReqs[i] = "poll" => licReqs[j] = "poll"
    /\ pc = "lic_make" => ((req = "poll") <=> (sr.Jobid # "nil"))
    /\ (\E i \in 1..Len(licReqs) : licReqs[i] = "poll") => hist.decoded >= 1

\* a 204 to the submission, a second submission answered with the job id,
\* then a poll
C16_Witness ==
    /\ licReqs = <<"submit", "submit", "poll">>
    /\ licResps[1] = 204 /\ licResps[2] = 201

\* C17: the field walk is entered only with Return 200, from the response
\* processed last, and a job id; the job id is unset until a response body
\* has been decoded; Return is the status of the response processed last.
C17_ReadyState ==
    /\ pc = "lic_record" =>
          /\ sr.Return = 200 /\ sr.Jobid # "nil"
          /\ licResps[Len(licResps)] = 200
    /\ sr.Jobid # "nil" => hist.decoded >= 1
    /\ pc \in {"lic_ready", "lic_sleep", "lic_timeout", "lic_record"} =>
          sr.Return = licResps[Len(licResps)]
    /\ pc \in {"lic_create", "lic_make"} =>
          sr.Return = IF Len(licResps) = 0 THEN 0 ELSE licResps[Len(licResps)]
    /\ pc = "lic_unmarshall" =>
          sr.Return = IF Len(licResps) = 1 THEN 0 ELSE licResps[Len(licResps) - 1]

\* submission answered 201 with the job id, a pending poll, then the result
C17_Witness ==
    /\ pc = "lic_record" /\ licResps = <<201, 204, 200>>
    /\ licReqs = <<"submit", "poll", "poll">> /\ hist.decoded = 2

\* C18: the timeout error is added only when the response processed last
\* was a 204.
C18_TimeoutOnlyWhenPending ==
    HasErr("lic", errMaxSearchWaitTimeExceeded) =>
        (LicEnded /\ licResps[Len(licResps)] = 204)

LoopErrs ==
    SelectSeq(errs, LAMBDA e : e.task = "lic" /\ e.kind # "convert")

\* C19: an enabled job task ends either with exactly one error of its loop,
\* no other error and no datapoint, or Ready with no error of its loop; it
\* never has two errors of its loop, nor one together with a datapoint.
C19_OneLoopErrorOrReady ==
    /\ Len(LoopErrs) <= 1
    /\ LoopErrs # <<>> =>
          /\ LicEnded /\ ~hist.ready /\ hist.licDps = 0
          /\ Len(TasksErrs("lic")) = 1
          /\ LoopErrs[1].kind \in {"create", "transport", "canceled", "read",
                                   "decode", errMaxSearchWaitTimeExceeded}
    /\ LicEnded /\ conf.licEnabled => (hist.ready <=> LoopErrs = <<>>)

\* a Ready result that gave a conversion error and two datapoints
C19_Witness ==
    /\ LicEnded /\ hist.ready /\ LoopErrs = <<>>
    /\ Len(TasksErrs("lic")) = 1 /\ hist.licDps = 2

====
